---- MODULE Spec2Model ----
(***************************************************************************)
(* Frame selection, ensemble voting, boundary marking and output writing   *)
(* of the ACOUSLIC fetal-abdomen segmentation inference scripts:           *)
(*   src/docker/inference.py   ensemble entry point, get_suitable_frame    *)
(*   src/inference.py          single-model entry point, get_frame_number  *)
(*   src/postprocess_probability_maps.py   mark_boundary_points            *)
(*                                                                         *)
(* Arrays are functions with 0-based domains, as numpy indexes them: a     *)
(* sequence of N frames is a function on 0..N-1, a 2D mask a function on   *)
(* (0..Height-1) \X (0..Width-1).  A Python exception is a result record   *)
(* whose err field names the exception.                                    *)
(***************************************************************************)
EXTENDS Integers, FiniteSets, Sequences, TLC

VARIABLES pc, args, ret,
          checkpoints, chk, fetal_abdomen_map, frame_probability,
          relative_frame_distances, fetal_abdomen_postprocessed,
          fetal_abdomen_frame_number, fetal_abdomen_segmentation,
          image_file, json_file, error

vars == <<pc, args, ret, checkpoints, chk, fetal_abdomen_map, frame_probability,
          relative_frame_distances, fetal_abdomen_postprocessed,
          fetal_abdomen_frame_number, fetal_abdomen_segmentation,
          image_file, json_file, error>>

(***************************************************************************)
(* Bounds of the model.                                                    *)
(***************************************************************************)
\* longest frame sequence handed to a frame selector
MaxFrames == 3
\* frame probabilities are the levels 0..MaxProb
MaxProb == 1
\* explicit sweep_width arguments 1..MaxSweep (besides the default)
MaxSweep == 2
\* longest relative-distance sequence handed to get_frame_number
MaxDistFrames == 4
\* relative distances are the fractions h / Den, h in -Den..Den
Den == 2
\* frame numbers handed to convert_2d_mask_to_3d lie within EmbedMargin of
\* -1, 0, 839 and 840
EmbedMargin == 3
\* most checkpoints of an ensemble
MaxCheckpoints == 3
\* longest sweep of a whole run
MaxRunFrames == 2
\* mask height and width in pixels
Height == 3
Width == 3

(***************************************************************************)
(* Program constants.                                                      *)
(***************************************************************************)
\* def get_suitable_frame(..., sweep_width=15)
sweep_width_default == 15
\* number_of_frames=840 in write_array_as_image_file
number_of_frames_840 == 840

(***************************************************************************)
(* Arrays.                                                                 *)
(***************************************************************************)
Pixels == (0..(Height - 1)) \X (0..(Width - 1))

ZeroMask == [p \in Pixels |-> 0]

FullMask == [p \in Pixels |-> 1]

OneHot(q) == [p \in Pixels |-> IF p = q THEN 1 ELSE 0]

\* the binary masks the frame selectors are exercised with
SampleMasks == {ZeroMask, OneHot(<<0, 0>>), FullMask}

\* all arrays of length 0..n over the value set S
ArraysUpTo(n, S) == UNION {[0..(k - 1) -> S] : k \in 0..n}

len(a) == Cardinality(DOMAIN a)

\* ndarray.max() of a 2D mask
MaskMax(m) == CHOOSE v \in {m[p] : p \in DOMAIN m} : \A p \in DOMAIN m : m[p] <= v

\* np.zeros_like
zeros_like(m) == [p \in DOMAIN m |-> 0]

\* np.clip on a scalar
clip(x, lo, hi) == IF x < lo THEN lo ELSE IF x > hi THEN hi ELSE x

\* np.argmax: the first index of the maximum (callers pass a non-empty array)
argmax(a) ==
    CHOOSE i \in DOMAIN a :
        /\ \A j \in DOMAIN a : a[j] <= a[i]
        /\ \A j \in DOMAIN a : j < i => a[j] < a[i]

\* np.argmin: the first index of the minimum
argmin(a) ==
    CHOOSE i \in DOMAIN a :
        /\ \A j \in DOMAIN a : a[j] >= a[i]
        /\ \A j \in DOMAIN a : j < i => a[j] > a[i]

(***************************************************************************)
(* Results of a call: a raised exception, or the returned values.  numpy   *)
(* is TRUE when the returned index is a numpy integer scalar (the result   *)
(* of np.clip) rather than a Python int.                                   *)
(***************************************************************************)
Raise(e) == [err |-> e, frame |-> 0, mask |-> ZeroMask, numpy |-> FALSE]

Return(j, m, np) == [err |-> "none", frame |-> j, mask |-> m, numpy |-> np]

NoResult == Raise("not called")

(***************************************************************************)
(* src/docker/inference.py: get_suitable_frame                             *)
(***************************************************************************)
RECURSIVE sweep_frames_minus_first(_, _, _, _, _)
\* mutant of sweep_frames: checks n - i before n + i
sweep_frames_minus_first(segmentation_map, n, n_frames, i, sweep_width) ==
    IF i >= sweep_width
    THEN Return(-1, zeros_like(segmentation_map[0]), FALSE)
    ELSE LET jp == clip(n + i, 0, n_frames - 1)
             jm == clip(n - i, 0, n_frames - 1)
         IN  IF jm \notin DOMAIN segmentation_map THEN Raise("IndexError")
             ELSE IF MaskMax(segmentation_map[jm]) > 0
             THEN Return(jm, segmentation_map[jm], TRUE)
             ELSE IF jp \notin DOMAIN segmentation_map THEN Raise("IndexError")
             ELSE IF MaskMax(segmentation_map[jp]) > 0
             THEN Return(jp, segmentation_map[jp], TRUE)
             ELSE sweep_frames_minus_first(segmentation_map, n, n_frames, i + 1,
                                           sweep_width)

RECURSIVE sweep_frames_one_further(_, _, _, _, _)
\* mutant of sweep_frames: the loop runs to offset sweep_width inclusive
sweep_frames_one_further(segmentation_map, n, n_frames, i, sweep_width) ==
    IF i > sweep_width
    THEN Return(-1, zeros_like(segmentation_map[0]), FALSE)
    ELSE LET jp == clip(n + i, 0, n_frames - 1)
             jm == clip(n - i, 0, n_frames - 1)
         IN  IF jp \notin DOMAIN segmentation_map THEN Raise("IndexError")
             ELSE IF MaskMax(segmentation_map[jp]) > 0
             THEN Return(jp, segmentation_map[jp], TRUE)
             ELSE IF jm \notin DOMAIN segmentation_map THEN Raise("IndexError")
             ELSE IF MaskMax(segmentation_map[jm]) > 0
             THEN Return(jm, segmentation_map[jm], TRUE)
             ELSE sweep_frames_one_further(segmentation_map, n, n_frames, i + 1,
                                           sweep_width)

RECURSIVE sweep_frames(_, _, _, _, _)
\* the loop "for i in range(1, sweep_width)" from offset i on
sweep_frames(segmentation_map, n, n_frames, i, sweep_width) ==
    IF i >= sweep_width
    THEN Return(-1, zeros_like(segmentation_map[0]), FALSE)
    ELSE LET jp == clip(n + i, 0, n_frames - 1)
             jm == clip(n - i, 0, n_frames - 1)
         IN  IF jp \notin DOMAIN segmentation_map THEN Raise("IndexError")
             ELSE IF MaskMax(segmentation_map[jp]) > 0
             THEN Return(jp, segmentation_map[jp], TRUE)
             ELSE IF jm \notin DOMAIN segmentation_map THEN Raise("IndexError")
             ELSE IF MaskMax(segmentation_map[jm]) > 0
             THEN Return(jm, segmentation_map[jm], TRUE)
             ELSE sweep_frames(segmentation_map, n, n_frames, i + 1, sweep_width)

\* mutant of get_suitable_frame: the argmax frame is returned unchecked
get_suitable_frame_unchecked(frame_probabilities, segmentation_map, sweep_width) ==
    IF len(frame_probabilities) = 0 THEN Raise("ValueError")
    ELSE LET n == argmax(frame_probabilities)
         IN  IF n \notin DOMAIN segmentation_map THEN Raise("IndexError")
             ELSE Return(n, segmentation_map[n], FALSE)

get_suitable_frame(frame_probabilities, segmentation_map, sweep_width) ==
    IF len(frame_probabilities) = 0 THEN Raise("ValueError")
    ELSE LET n == argmax(frame_probabilities)
             n_frames == len(frame_probabilities)
         IN  IF n \notin DOMAIN segmentation_map THEN Raise("IndexError")
             ELSE IF MaskMax(segmentation_map[n]) = 0
             THEN sweep_frames(segmentation_map, n, n_frames, 1, sweep_width)
             ELSE Return(n, segmentation_map[n], FALSE)

(***************************************************************************)
(* Specification of get_suitable_frame as a function of its arguments.     *)
(***************************************************************************)
SweepWidths == (1..MaxSweep) \cup {sweep_width_default}

IdleRun ==
    /\ checkpoints = 0
    /\ chk = 0
    /\ fetal_abdomen_map = <<>>
    /\ frame_probability = <<>>
    /\ relative_frame_distances = <<>>
    /\ fetal_abdomen_postprocessed = <<>>
    /\ fetal_abdomen_frame_number = NoResult
    /\ fetal_abdomen_segmentation = ZeroMask
    /\ image_file = [err |-> "not written", volume |-> <<>>]
    /\ json_file = [state |-> "absent", text |-> <<>>]
    /\ error = "none"

runVars == <<checkpoints, chk, fetal_abdomen_map, frame_probability,
             relative_frame_distances, fetal_abdomen_postprocessed,
             fetal_abdomen_frame_number, fetal_abdomen_segmentation,
             image_file, json_file, error>>

InitSelect ==
    /\ pc = "call"
    /\ args \in [frame_probabilities : ArraysUpTo(MaxFrames, 0..MaxProb),
                 segmentation_map : ArraysUpTo(MaxFrames, SampleMasks),
                 sweep_width : SweepWidths]
    /\ ret = NoResult
    /\ IdleRun

CallGetSuitableFrame ==
    /\ pc = "call"
    /\ ret' = get_suitable_frame(args.frame_probabilities, args.segmentation_map,
                                 args.sweep_width)
    /\ pc' = "returned"
    /\ UNCHANGED <<args, runVars>>

NextSelect == CallGetSuitableFrame

SpecSelect == InitSelect /\ [][NextSelect]_vars

(***************************************************************************)
(* Properties of get_suitable_frame.                                       *)
(***************************************************************************)
\* the arguments of a returned call are N >= 1 probabilities and N masks
WellFormedSelect ==
    /\ pc = "returned"
    /\ len(args.frame_probabilities) >= 1
    /\ len(args.segmentation_map) = len(args.frame_probabilities)

\* the k-th frame checked (k = 1, 2, ...): n, n+1, n-1, n+2, n-2, ... clamped
CheckedFrame(n, n_frames, k) ==
    IF k = 1 THEN n
    ELSE IF k % 2 = 0 THEN clip(n + (k \div 2), 0, n_frames - 1)
    ELSE clip(n - (k \div 2), 0, n_frames - 1)

HasForeground(m) == \E p \in DOMAIN m : m[p] > 0

\* the positions of the check order whose frame has a foreground pixel
Hits(a) ==
    LET n == argmax(a.frame_probabilities)
        N == len(a.frame_probabilities)
    IN  {k \in 1..(2 * a.sweep_width - 1) :
            HasForeground(a.segmentation_map[CheckedFrame(n, N, k)])}

FirstHit(a) == CHOOSE k \in Hits(a) : \A h \in Hits(a) : k <= h

C2_SentinelIff ==
    WellFormedSelect =>
        /\ ret.err = "none"
        /\ (ret.frame = -1) <=> (Hits(args) = {})
        /\ ret.frame = -1 =>
               /\ DOMAIN ret.mask = DOMAIN args.segmentation_map[0]
               /\ \A p \in DOMAIN ret.mask : ret.mask[p] = 0

\* C2 witness: the sentinel was returned although a frame outside the sweep
\* window has foreground
C2_Witness ==
    /\ WellFormedSelect
    /\ ret.frame = -1
    /\ \E j \in DOMAIN args.segmentation_map : HasForeground(args.segmentation_map[j])

\* C8: a call whose score and mask sequences differ in length, or with N = 0,
\* fails with an error and returns no index
C8_InputValidated ==
    ( /\ pc = "returned"
      /\ \/ len(args.frame_probabilities) # len(args.segmentation_map)
         \/ len(args.frame_probabilities) = 0 )
    => ret.err # "none"

(***************************************************************************)
(* src/inference.py: get_frame_number, compute_distance_distribution.      *)
(* A relative distance is the fraction h / Den, held as its numerator h;   *)
(* n * rel_dist is then the array of numerators n * h over the same Den.   *)
(***************************************************************************)
\* int() of the fraction a / Den: truncation toward zero
int_of(a) == IF a >= 0 THEN a \div Den ELSE -((-a) \div Den)

\* np.rint of s / 2 for s >= 0: round half to even
rint_half(s) ==
    IF s % 2 = 0 THEN s \div 2
    ELSE IF (s \div 2) % 2 = 0 THEN s \div 2 ELSE (s \div 2) + 1

\* elementwise n * rel_dist and np.abs(rel_dist)
scaled(n, rel_dist) == [i \in DOMAIN rel_dist |-> n * rel_dist[i]]

np_abs(rel_dist) ==
    [i \in DOMAIN rel_dist |-> IF rel_dist[i] < 0 THEN -rel_dist[i] ELSE rel_dist[i]]

RECURSIVE distribute(_, _, _, _)
\* the loop "for i, x in enumerate(relative_distances)" from index i on
distribute(relative_distances, n, i, dist) ==
    IF i >= len(relative_distances) THEN dist
    ELSE LET x == relative_distances[i]
         IN  IF x # -Den
             THEN LET j == clip(int_of(i * Den + x), 0, n - 1)
                  IN  distribute(relative_distances, n, i + 1,
                                 [dist EXCEPT ![j] = 1 + dist[j]])
             ELSE distribute(relative_distances, n, i + 1, dist)

compute_distance_distribution(relative_distances, n) ==
    distribute(relative_distances, n, 0, [j \in 0..(n - 1) |-> 0])

\* mutant of get_frame_number: the sum of rfn and mfn is not halved
get_frame_number_sum(rel_dist) ==
    LET n == len(rel_dist)
    IN  IF n = 0 THEN Raise("ValueError")
        ELSE LET rfn == argmax(compute_distance_distribution(scaled(n, rel_dist), n))
                 mfn == argmin(np_abs(rel_dist))
             IN  Return(rfn + mfn, ZeroMask, FALSE)

get_frame_number(rel_dist) ==
    LET n == len(rel_dist)
    IN  IF n = 0 THEN Raise("ValueError")
        ELSE LET rfn == argmax(compute_distance_distribution(scaled(n, rel_dist), n))
                 mfn == argmin(np_abs(rel_dist))
             IN  Return(rint_half(rfn + mfn), ZeroMask, FALSE)

(***************************************************************************)
(* Specification of get_frame_number as a function of its argument.        *)
(***************************************************************************)
RelValues == (-Den)..Den

InitFrameNumber ==
    /\ pc = "call"
    /\ args \in [rel_dist : ArraysUpTo(MaxDistFrames, RelValues)]
    /\ ret = NoResult
    /\ IdleRun

CallGetFrameNumber ==
    /\ pc = "call"
    /\ ret' = get_frame_number(args.rel_dist)
    /\ pc' = "returned"
    /\ UNCHANGED <<args, runVars>>

NextFrameNumber == CallGetFrameNumber

SpecFrameNumber == InitFrameNumber /\ [][NextFrameNumber]_vars

(***************************************************************************)
(* Properties of get_frame_number.                                         *)
(***************************************************************************)
\* the relative distances [-1, -1, 0, -1]
C3_Example == (0 :> -Den) @@ (1 :> -Den) @@ (2 :> 0) @@ (3 :> -Den)

\* the number of votes in a histogram
RECURSIVE Votes(_, _)
Votes(dist, j) == IF j >= len(dist) THEN 0 ELSE dist[j] + Votes(dist, j + 1)

\* C3: a frame whose relative distance is -1 casts no vote, every other
\* frame votes once; for the distances [-1, -1, 0, -1] the histogram has its
\* only vote at index 2 and get_frame_number returns 2.
C3_SentinelCastsNoVote ==
    (pc = "returned" /\ len(args.rel_dist) >= 1) =>
        LET n == len(args.rel_dist)
            dist == compute_distance_distribution(scaled(n, args.rel_dist), n)
        IN  /\ Votes(dist, 0) = Cardinality({i \in 0..(n - 1) : args.rel_dist[i] # -Den})
            /\ args.rel_dist = C3_Example =>
                   /\ dist = (0 :> 0) @@ (1 :> 0) @@ (2 :> 1) @@ (3 :> 0)
                   /\ ret.frame = 2

\* C4: for N >= 1 get_frame_number returns an integer in [0, N-1] that is a
\* nearest integer of (rfn + mfn) / 2, rfn the first index of the histogram
\* maximum and mfn the first index of the least absolute relative distance.
C4_ValidIndex ==
    (pc = "returned" /\ len(args.rel_dist) >= 1) =>
        LET n == len(args.rel_dist)
            dist == compute_distance_distribution(scaled(n, args.rel_dist), n)
            rfn == CHOOSE j \in 0..(n - 1) :
                       \A k \in 0..(n - 1) :
                           dist[k] <= dist[j] /\ (k < j => dist[k] < dist[j])
            mfn == CHOOSE j \in 0..(n - 1) :
                       \A k \in 0..(n - 1) :
                           /\ np_abs(args.rel_dist)[k] >= np_abs(args.rel_dist)[j]
                           /\ k < j => np_abs(args.rel_dist)[k] > np_abs(args.rel_dist)[j]
        IN  /\ ret.err = "none"
            /\ ret.frame \in 0..(n - 1)
            /\ 2 * ret.frame - (rfn + mfn) \in {-1, 0, 1}

\* C4 witness: rfn + mfn is odd (a rounding tie) and the last frame is returned
C4_Witness ==
    /\ pc = "returned"
    /\ len(args.rel_dist) >= 2
    /\ ret.err = "none"
    /\ LET n == len(args.rel_dist)
       IN  /\ (argmax(compute_distance_distribution(scaled(n, args.rel_dist), n))
                + argmin(np_abs(args.rel_dist))) % 2 = 1
           /\ ret.frame = n - 1

(***************************************************************************)
(* convert_2d_mask_to_3d (the same in both entry points).  A frame number  *)
(* is None or an integer.                                                  *)
(***************************************************************************)
None == [is_none |-> TRUE, v |-> 0]

PyInt(v) == [is_none |-> FALSE, v |-> v]

RaiseVolume(e) == [err |-> e, volume |-> <<>>]

ReturnVolume(vol) == [err |-> "none", volume |-> vol]

\* mutant of convert_2d_mask_to_3d: no lower bound on frame_number, so a
\* negative frame number indexes from the end of the volume
convert_2d_mask_to_3d_no_lower_bound(mask_2d, frame_number, number_of_frames) ==
    LET mask_3d == [i \in 0..(number_of_frames - 1) |-> zeros_like(mask_2d)]
    IN  IF ~frame_number.is_none /\ frame_number.v = -1
        THEN ReturnVolume(mask_3d)
        ELSE IF ~frame_number.is_none /\ frame_number.v < number_of_frames
                /\ frame_number.v >= -number_of_frames
        THEN ReturnVolume([mask_3d EXCEPT ![frame_number.v % number_of_frames] = mask_2d])
        ELSE RaiseVolume("ValueError")

convert_2d_mask_to_3d(mask_2d, frame_number, number_of_frames) ==
    LET mask_3d == [i \in 0..(number_of_frames - 1) |-> zeros_like(mask_2d)]
    IN  IF ~frame_number.is_none /\ frame_number.v = -1
        THEN ReturnVolume(mask_3d)
        ELSE IF ~frame_number.is_none
                /\ 0 <= frame_number.v /\ frame_number.v < number_of_frames
        THEN ReturnVolume([mask_3d EXCEPT ![frame_number.v] = mask_2d])
        ELSE RaiseVolume("ValueError")

(***************************************************************************)
(* Specification of convert_2d_mask_to_3d as a function of its arguments.  *)
(***************************************************************************)
EmbedFrameNumbers ==
    {None} \cup {PyInt(v) : v \in ((-1 - EmbedMargin)..EmbedMargin)
                                  \cup ((number_of_frames_840 - 1 - EmbedMargin)
                                        ..(number_of_frames_840 + EmbedMargin))}

InitEmbed ==
    /\ pc = "call"
    /\ args \in [mask_2d : SampleMasks \cup {OneHot(p) : p \in Pixels},
                 frame_number : EmbedFrameNumbers,
                 number_of_frames : {number_of_frames_840}]
    /\ ret = RaiseVolume("not called")
    /\ IdleRun

CallConvert2dMaskTo3d ==
    /\ pc = "call"
    /\ ret' = convert_2d_mask_to_3d(args.mask_2d, args.frame_number,
                                    args.number_of_frames)
    /\ pc' = "returned"
    /\ UNCHANGED <<args, runVars>>

NextEmbed == CallConvert2dMaskTo3d

SpecEmbed == InitEmbed /\ [][NextEmbed]_vars

\* C5: with number_of_frames = 840, frame_number -1 gives an all-zero volume
\* of 840 frames; 0 <= frame_number <= 839 gives the 2D mask at that frame
\* and zero at every other frame; any other frame_number (840 or more, less
\* than -1, or None) raises an error and returns no volume.
C5_Embed ==
    pc = "returned" =>
        LET fn == args.frame_number
        IN  /\ (~fn.is_none /\ fn.v = -1) =>
                   /\ ret.err = "none"
                   /\ DOMAIN ret.volume = 0..839
                   /\ \A i \in 0..839 : \A p \in Pixels : ret.volume[i][p] = 0
            /\ (~fn.is_none /\ fn.v \in 0..839) =>
                   /\ ret.err = "none"
                   /\ DOMAIN ret.volume = 0..839
                   /\ ret.volume[fn.v] = args.mask_2d
                   /\ \A i \in 0..839 : i # fn.v =>
                          \A p \in Pixels : ret.volume[i][p] = 0
            /\ (fn.is_none \/ fn.v < -1 \/ fn.v >= 840) =>
                   ret.err # "none" /\ ret.volume = <<>>

\* C5 witness: a mask with foreground was embedded at frame 839
C5_Witness ==
    /\ pc = "returned"
    /\ ~args.frame_number.is_none
    /\ args.frame_number.v = 839
    /\ HasForeground(args.mask_2d)
    /\ ret.err = "none"
    /\ ret.volume[839] = args.mask_2d

(***************************************************************************)
(* src/postprocess_probability_maps.py: mark_boundary_points               *)
(***************************************************************************)
\* binary_mask.astype(bool)
astype_bool(m) == [p \in DOMAIN m |-> m[p] # 0]

AbsDiff(a, b) == IF a >= b THEN a - b ELSE b - a

\* mutant of binary_dilation: a full 3x3 structuring element (8-connected)
binary_dilation_8(b) ==
    [p \in DOMAIN b |->
        \E q \in DOMAIN b :
            b[q] /\ AbsDiff(p[1], q[1]) <= 1 /\ AbsDiff(p[2], q[2]) <= 1]

\* scipy.ndimage.binary_dilation with its defaults: one iteration, the
\* structuring element of connectivity 1 (a cross), background outside
binary_dilation(b) ==
    [p \in DOMAIN b |->
        \E q \in DOMAIN b :
            b[q] /\ AbsDiff(p[1], q[1]) + AbsDiff(p[2], q[2]) <= 1]

mark_boundary_points(binary_mask) ==
    LET mask == astype_bool(binary_mask)
        dilated_mask == binary_dilation(mask)
        boundary == [p \in DOMAIN mask |-> dilated_mask[p] /\ ~mask[p]]
    IN  [p \in DOMAIN mask |->
            IF boundary[p] THEN 2 ELSE IF mask[p] THEN 1 ELSE 0]

InitBoundary ==
    /\ pc = "call"
    /\ args \in [binary_mask : [Pixels -> {0, 1}]]
    /\ ret = NoResult
    /\ IdleRun

CallMarkBoundaryPoints ==
    /\ pc = "call"
    /\ ret' = Return(0, mark_boundary_points(args.binary_mask), FALSE)
    /\ pc' = "returned"
    /\ UNCHANGED <<args, runVars>>

NextBoundary == CallMarkBoundaryPoints

SpecBoundary == InitBoundary /\ [][NextBoundary]_vars

\* the in-bounds 4-connected neighbours of a pixel
Neighbours4(p) ==
    {q \in Pixels : q \in {<<p[1] - 1, p[2]>>, <<p[1] + 1, p[2]>>,
                           <<p[1], p[2] - 1>>, <<p[1], p[2] + 1>>}}

\* C9: mark_boundary_points labels exactly the foreground pixels 1, exactly
\* the background pixels with a 4-connected foreground neighbour 2, and all
\* other pixels 0.
C9_BoundaryLabels ==
    pc = "returned" =>
        \A p \in Pixels :
            LET fg == args.binary_mask[p] = 1
                near == \E q \in Neighbours4(p) : args.binary_mask[q] = 1
            IN  /\ (ret.mask[p] = 1) <=> fg
                /\ (ret.mask[p] = 2) <=> (~fg /\ near)
                /\ (ret.mask[p] = 0) <=> (~fg /\ ~near)

\* C9 witness: a single foreground pixel with four in-bounds neighbours, all
\* labelled 2, and a diagonal neighbour labelled 0
C9_Witness ==
    /\ pc = "returned"
    /\ \E p \in Pixels :
           /\ args.binary_mask = OneHot(p)
           /\ Cardinality(Neighbours4(p)) = 4
           /\ ret.mask[p] = 1
           /\ \A q \in Neighbours4(p) : ret.mask[q] = 2
           /\ ret.mask[<<p[1] + 1, p[2] + 1>>] = 0

(***************************************************************************)
(* The two entry points.  args holds the entry point and the number of     *)
(* frames of the input sweep; the external model's outputs are arbitrary.  *)
(***************************************************************************)
DigitChars == <<"0", "1", "2", "3", "4", "5", "6", "7", "8", "9">>

RECURSIVE digits(_)
digits(v) ==
    IF v < 10 THEN <<DigitChars[v + 1]>>
    ELSE digits(v \div 10) \o <<DigitChars[(v % 10) + 1]>>

\* json.dumps(content, indent=4) of a Python int: its decimal text; a numpy
\* integer is not JSON serializable
json_dumps(content) ==
    IF content.numpy THEN [err |-> "TypeError", text |-> <<>>]
    ELSE [err |-> "none",
          text |-> IF content.frame < 0 THEN <<"-">> \o digits(-content.frame)
                   ELSE digits(content.frame)]

NoFile == [state |-> "absent", text |-> <<>>]

\* elementwise sum of two volumes, and of two score arrays
AddVolumes(a, b) == [i \in DOMAIN a |-> [p \in DOMAIN a[i] |-> a[i][p] + b[i][p]]]

AddArrays(a, b) == [i \in DOMAIN a |-> a[i] + b[i]]

\* max(1, int(len(checkpoints) // 2))
cutoff_of(n_checkpoints) ==
    IF n_checkpoints \div 2 > 1 THEN n_checkpoints \div 2 ELSE 1

\* (fetal_abdomen_map >= cutoff).astype("uint8")
threshold_map(map, cutoff) ==
    [i \in DOMAIN map |-> [p \in DOMAIN map[i] |-> IF map[i][p] >= cutoff THEN 1 ELSE 0]]

\* the binary frames of one checkpoint's post-processed map
EnsembleMasks == {ZeroMask, OneHot(<<0, 0>>)}

\* the relative distances a run's model predicts: -1, 0 and 1 / Den
RunRelValues == {-Den, 0, 1}

\* the tri-valued frames of a post-processed volume
PostprocessedMasks == {mark_boundary_points(m) : m \in SampleMasks}

InitRun(entry) ==
    /\ args \in [entry : {entry}, n_frames : 1..MaxRunFrames]
    /\ ret = NoResult
    /\ chk = 0
    \* the accumulators start as the scalar 0., which broadcasts to zeros in
    \* the first addition
    /\ fetal_abdomen_map = [i \in 0..(args.n_frames - 1) |-> ZeroMask]
    /\ frame_probability = [i \in 0..(args.n_frames - 1) |-> 0]
    /\ relative_frame_distances = <<>>
    /\ fetal_abdomen_postprocessed = <<>>
    /\ fetal_abdomen_frame_number = NoResult
    /\ fetal_abdomen_segmentation = ZeroMask
    /\ image_file = RaiseVolume("not written")
    /\ json_file = NoFile
    /\ error = "none"

InitDocker ==
    /\ pc = "loop"
    /\ checkpoints \in 0..MaxCheckpoints
    /\ InitRun("docker")

InitInference ==
    /\ pc = "predict"
    /\ checkpoints = 1
    /\ InitRun("inference")

Init == InitDocker \/ InitInference

\* docker run: one pass of "for chkpt_path in checkpoints"
PredictCheckpoint ==
    /\ pc = "loop"
    /\ chk < checkpoints
    /\ \E s \in [0..(args.n_frames - 1) -> EnsembleMasks],
          f \in [0..(args.n_frames - 1) -> {0, 1}] :
           /\ fetal_abdomen_map' = AddVolumes(fetal_abdomen_map, s)
           /\ frame_probability' = AddArrays(frame_probability, f)
    /\ chk' = chk + 1
    /\ UNCHANGED <<pc, args, ret, checkpoints, relative_frame_distances,
                   fetal_abdomen_postprocessed, fetal_abdomen_frame_number,
                   fetal_abdomen_segmentation, image_file, json_file, error>>

\* docker run: the majority vote after the loop; without checkpoints the map
\* is still the float 0., and (0. >= 1) is a bool with no astype
MajorityVote ==
    /\ pc = "loop"
    /\ chk = checkpoints
    /\ IF checkpoints = 0
       THEN /\ error' = "AttributeError"
            /\ pc' = "failed"
            /\ UNCHANGED fetal_abdomen_map
       ELSE /\ fetal_abdomen_map' = threshold_map(fetal_abdomen_map,
                                                  cutoff_of(checkpoints))
            /\ pc' = "select"
            /\ UNCHANGED error
    /\ UNCHANGED <<args, ret, checkpoints, chk, frame_probability,
                   relative_frame_distances, fetal_abdomen_postprocessed,
                   fetal_abdomen_frame_number, fetal_abdomen_segmentation,
                   image_file, json_file>>

\* docker run: get_suitable_frame(frame_probability, fetal_abdomen_map)
SelectSuitableFrame ==
    /\ pc = "select"
    /\ args.entry = "docker"
    /\ LET r == get_suitable_frame(frame_probability, fetal_abdomen_map,
                                   sweep_width_default)
       IN  IF r.err # "none"
           THEN /\ error' = r.err
                /\ pc' = "failed"
                /\ UNCHANGED <<fetal_abdomen_frame_number, fetal_abdomen_segmentation>>
           ELSE /\ fetal_abdomen_frame_number' = r
                /\ fetal_abdomen_segmentation' = r.mask
                /\ pc' = "write_image"
                /\ UNCHANGED error
    /\ UNCHANGED <<args, ret, checkpoints, chk, fetal_abdomen_map, frame_probability,
                   relative_frame_distances, fetal_abdomen_postprocessed,
                   image_file, json_file>>

\* inference run: algorithm.predict and algorithm.postprocess
PredictAndPostprocess ==
    /\ pc = "predict"
    /\ relative_frame_distances' \in [0..(args.n_frames - 1) -> RunRelValues]
    /\ fetal_abdomen_postprocessed' \in [0..(args.n_frames - 1) -> PostprocessedMasks]
    /\ pc' = "select"
    /\ UNCHANGED <<args, ret, checkpoints, chk, fetal_abdomen_map, frame_probability,
                   fetal_abdomen_frame_number, fetal_abdomen_segmentation,
                   image_file, json_file, error>>

\* inference run: get_frame_number, then indexing the post-processed volume
SelectFrameNumber ==
    /\ pc = "select"
    /\ args.entry = "inference"
    /\ LET r == get_frame_number(relative_frame_distances)
       IN  IF r.err # "none"
           THEN /\ error' = r.err
                /\ pc' = "failed"
                /\ UNCHANGED <<fetal_abdomen_frame_number, fetal_abdomen_segmentation>>
           ELSE IF r.frame \notin DOMAIN fetal_abdomen_postprocessed
           THEN /\ error' = "IndexError"
                /\ pc' = "failed"
                /\ fetal_abdomen_frame_number' = r
                /\ UNCHANGED fetal_abdomen_segmentation
           ELSE /\ fetal_abdomen_frame_number' = r
                /\ fetal_abdomen_segmentation' = fetal_abdomen_postprocessed[r.frame]
                /\ pc' = "write_image"
                /\ UNCHANGED error
    /\ UNCHANGED <<args, ret, checkpoints, chk, fetal_abdomen_map, frame_probability,
                   relative_frame_distances, fetal_abdomen_postprocessed,
                   image_file, json_file>>

\* write_array_as_image_file: the mask embedded in 840 frames, then written
WriteArrayAsImageFile ==
    /\ pc = "write_image"
    /\ LET array == convert_2d_mask_to_3d(fetal_abdomen_segmentation,
                                          PyInt(fetal_abdomen_frame_number.frame),
                                          number_of_frames_840)
       IN  IF array.err # "none"
           THEN /\ error' = array.err
                /\ pc' = "failed"
                /\ UNCHANGED image_file
           ELSE /\ image_file' = array
                /\ pc' = "write_json"
                /\ UNCHANGED error
    /\ UNCHANGED <<args, ret, checkpoints, chk, fetal_abdomen_map, frame_probability,
                   relative_frame_distances, fetal_abdomen_postprocessed,
                   fetal_abdomen_frame_number, fetal_abdomen_segmentation, json_file>>

\* write_json_file: open(location, 'w') creates the file, then json.dumps
WriteJsonFile ==
    /\ pc = "write_json"
    /\ LET text == json_dumps(fetal_abdomen_frame_number)
       IN  IF text.err # "none"
           THEN /\ json_file' = [state |-> "empty", text |-> <<>>]
                /\ error' = text.err
                /\ pc' = "failed"
           ELSE /\ json_file' = [state |-> "written", text |-> text.text]
                /\ pc' = "done"
                /\ UNCHANGED error
    /\ UNCHANGED <<args, ret, checkpoints, chk, fetal_abdomen_map, frame_probability,
                   relative_frame_distances, fetal_abdomen_postprocessed,
                   fetal_abdomen_frame_number, fetal_abdomen_segmentation, image_file>>

Next ==
    \/ PredictCheckpoint
    \/ MajorityVote
    \/ SelectSuitableFrame
    \/ PredictAndPostprocess
    \/ SelectFrameNumber
    \/ WriteArrayAsImageFile
    \/ WriteJsonFile

Spec == Init /\ [][Next]_vars

(***************************************************************************)
(* Properties of the runs.                                                 *)
(***************************************************************************)
\* a frame has been selected
Selected == fetal_abdomen_frame_number.err = "none"

\* the volume the selected index refers to
SelectedFrom ==
    IF args.entry = "docker" THEN fetal_abdomen_map ELSE fetal_abdomen_postprocessed

\* the integer a JSON text denotes
DigitValue(c) == CHOOSE d \in 0..9 : DigitChars[d + 1] = c

RECURSIVE number(_)
number(text) ==
    IF Len(text) = 0 THEN 0
    ELSE 10 * number(SubSeq(text, 1, Len(text) - 1)) + DigitValue(text[Len(text)])

json_loads(text) ==
    IF Len(text) > 0 /\ text[1] = "-" THEN -number(Tail(text)) ELSE number(text)

\* C6: the docker run's vote makes a pixel foreground if and only if its
\* accumulated count over the C >= 1 checkpoints is at least ceil(C / 2).
C6_MajorityVote ==
    [][(pc = "loop" /\ pc' = "select") =>
          \A i \in DOMAIN fetal_abdomen_map : \A p \in Pixels :
              (fetal_abdomen_map'[i][p] = 1) <=> (2 * fetal_abdomen_map[i][p] >= checkpoints)]_vars

\* C7: in both entry points a selected frame index other than -1 refers to a
\* mask with at least one foreground pixel.
C7_SelectedHasForeground ==
    (Selected /\ fetal_abdomen_frame_number.frame # -1) =>
        /\ fetal_abdomen_frame_number.frame \in DOMAIN SelectedFrom
        /\ HasForeground(SelectedFrom[fetal_abdomen_frame_number.frame])

\* C7 as amended: in the docker entry point (get_suitable_frame) a selected
\* frame index other than -1 refers to a mask with at least one foreground
\* pixel, and that mask is the selected segmentation.
C7_DockerSelectedHasForeground ==
    (args.entry = "docker" /\ Selected /\ fetal_abdomen_frame_number.frame # -1) =>
        /\ fetal_abdomen_frame_number.frame \in DOMAIN fetal_abdomen_map
        /\ HasForeground(fetal_abdomen_map[fetal_abdomen_frame_number.frame])
        /\ fetal_abdomen_segmentation = fetal_abdomen_map[fetal_abdomen_frame_number.frame]

\* C7 witness: the docker run selected a frame by the outward search, the
\* argmax frame being empty
C7_Witness ==
    /\ args.entry = "docker"
    /\ Selected
    /\ fetal_abdomen_frame_number.frame # -1
    /\ fetal_abdomen_frame_number.frame # argmax(frame_probability)
    /\ ~HasForeground(fetal_abdomen_map[argmax(frame_probability)])

\* the written volume has 840 frames, all zero but the selected mask at the
\* selected index, and the JSON file holds that index
OutputsAgree ==
    /\ image_file.err = "none"
    /\ DOMAIN image_file.volume = 0..839
    /\ \A i \in 0..839 :
           image_file.volume[i] =
               IF i = fetal_abdomen_frame_number.frame
               THEN fetal_abdomen_segmentation ELSE ZeroMask
    /\ json_file.state = "written"
    /\ json_loads(json_file.text) = fetal_abdomen_frame_number.frame

\* C10: a run that completes has written the 840-frame volume, zero except
\* for the selected mask at the selected index, and a JSON file with that
\* index; a run that selects a frame produces both outputs or fails as a
\* whole, never leaving the image without its frame number.
C10_OutputsConsistent ==
    /\ pc = "done" => OutputsAgree
    /\ (Selected /\ pc \in {"done", "failed"}) =>
           ((image_file.err = "none") <=> (json_file.state = "written"))

====
